---- MODULE Spec2Model ----
(***************************************************************************)
(* Point-of-sale core: the product table, the sales ledger, the in-memory  *)
(* carts of the checkout terminals and the operations of                   *)
(* core/services/sales_service.py, core/services/inventory_service.py,     *)
(* db/repositories/product_repo.py and db/repositories/sales_repo.py.      *)
(*                                                                         *)
(* Every terminal is one process of the application (one GUI thread, one   *)
(* global session) working against the shared MySQL database.  A terminal  *)
(* runs one service call at a time; calls of different terminals           *)
(* interleave between SQL statements.  One action of the model is one SQL  *)
(* statement (or one commit) together with the Python code around it.      *)
(*                                                                         *)
(* Prices are integers (cents).  Product names and barcodes are short      *)
(* strings; the empty string is a missing barcode (None).                  *)
(***************************************************************************)
EXTENDS Integers, Sequences, FiniteSets, TLC

VARIABLES
    products,      \* table products: id -> row (exists = FALSE: no such row)
    sales,         \* table sales: sequence of committed rows
    sale_items,    \* table sale_items: sequence of committed rows
    next_sale_id,  \* AUTO_INCREMENT counter of table sales
    session,       \* per terminal: core.auth.current_session
    cart,          \* per terminal: the Sale object being built (current_sale)
    pc,            \* per terminal: position inside the running service call
    frame,         \* per terminal: arguments and locals of the running call
    result         \* per terminal: the last call and what it returned

vars == <<products, sales, sale_items, next_sale_id, session, cart, pc, frame, result>>

db == <<products, sales, sale_items, next_sale_id>>

----------------------------------------------------------------------------
(* Bounds of the model *)

\* largest quantity-on-hand a stock adjustment or edit may write
MaxStock == 3
\* largest quantity of one add_product_to_sale call and of one cart line
MaxLineQty == 3

Terminals == {1, 2}
ProductIds == {1, 2}
Prices == {10}
Names == {"tea"}

----------------------------------------------------------------------------
(* core/auth.py *)

SALES_VIEW == "sales_view"
SALES_CREATE == "sales_create"
INVENTORY_VIEW == "inventory_view"
INVENTORY_EDIT == "inventory_edit"
USER_MANAGE == "user_manage"
SETTINGS_EDIT == "settings_edit"

ROLE_PERMISSIONS(role) ==
    CASE role = "cashier" -> {SALES_VIEW, SALES_CREATE, INVENTORY_VIEW}
      [] role = "manager" -> {SALES_VIEW, SALES_CREATE, INVENTORY_VIEW, INVENTORY_EDIT}
      [] role = "admin" -> {SALES_VIEW, SALES_CREATE, INVENTORY_VIEW, INVENTORY_EDIT,
                            USER_MANAGE, SETTINGS_EDIT}
      [] OTHER -> {}

\* current_session = None
NoSession == [active |-> FALSE, user_id |-> 0, role |-> "", permissions |-> {}]

\* a login that hands every user the admin's permissions
login_AsAdmin(user) ==
    [active |-> TRUE, user_id |-> user.id, role |-> user.role,
     permissions |-> ROLE_PERMISSIONS("admin")]

\* login lines 72-84: the session of the user with its role's permissions
login(user) ==
    [active |-> TRUE, user_id |-> user.id, role |-> user.role,
     permissions |-> ROLE_PERMISSIONS(user.role)]

\* a check_permission that lets every caller through
check_permission_Always(t, permission) == TRUE

check_permission(t, permission) ==
    IF ~session[t].active THEN FALSE ELSE permission \in session[t].permissions

\* the users table: one operator per terminal
UserOf(t) == [id |-> t, role |-> "manager"]

----------------------------------------------------------------------------
(* db/models.py *)

SaleItem(product_id, product_name, quantity, unit_price) ==
    [product_id |-> product_id, product_name |-> product_name,
     quantity |-> quantity, unit_price |-> unit_price]

total_price(item) == item.quantity * item.unit_price

RECURSIVE SumTotals(_)
SumTotals(items) ==
    IF items = <<>> THEN 0 ELSE total_price(Head(items)) + SumTotals(Tail(items))

\* calculate_total that keeps the total the object carries
calculate_total_Stale(sale) == sale

\* Sale.calculate_total: total_amount = sum of the items' total_price
calculate_total(sale) == [sale EXCEPT !.total_amount = SumTotals(sale.items)]

\* Sale(user_id=...): a fresh, empty cart
NewSaleObject(user_id) == [user_id |-> user_id, total_amount |-> 0, items |-> <<>>]

NoProduct == [found |-> FALSE, id |-> 0, barcode |-> "", name |-> "", price |-> 0, quantity |-> 0]

----------------------------------------------------------------------------
(* The database: rows, reads, row locks of open transactions *)

Barcodes == {""}

ProductRow(barcode, name, price, quantity) ==
    [exists |-> TRUE, barcode |-> barcode, name |-> name, price |-> price,
     quantity |-> quantity]

NoRow == [exists |-> FALSE, barcode |-> "", name |-> "", price |-> 0, quantity |-> 0]

AsProduct(id) ==
    [found |-> TRUE, id |-> id, barcode |-> products[id].barcode,
     name |-> products[id].name, price |-> products[id].price,
     quantity |-> products[id].quantity]

\* product_repo.get_by_id: the row as a Product, or None when there is no such
\* row or when the storage raised (up = FALSE: the except branch returns None)
get_by_id(product_id, up) ==
    IF up /\ product_id \in DOMAIN products /\ products[product_id].exists
    THEN AsProduct(product_id)
    ELSE NoProduct

\* product_repo.get_by_barcode: fetchone() of the rows with that barcode
get_by_barcode(barcode, up) ==
    LET hits == {id \in DOMAIN products : products[id].exists /\ products[id].barcode = barcode}
    IN IF up /\ hits # {}
       THEN AsProduct(CHOOSE id \in hits : \A other \in hits : id <= other)
       ELSE NoProduct

\* the lines of t's open transaction written so far (create_sale_with_items)
InTransaction(t) == pc[t] \in {"cs_items", "cs_commit"}

WrittenLines(t) ==
    IF InTransaction(t) THEN SubSeq(cart[t].items, 1, frame[t].i - 1) ELSE <<>>

\* InnoDB row lock: the UPDATE of an open transaction holds the product row
\* until commit or rollback; a write of another connection waits for it
LockedByOther(t, product_id) ==
    \E u \in Terminals \ {t} :
        \E j \in DOMAIN WrittenLines(u) : WrittenLines(u)[j].product_id = product_id

\* a sale_items table without the foreign key to products
Referenced_NoForeignKey(product_id) == FALSE

\* sale_items.product_id REFERENCES products(id): rows that reference a product
Referenced(product_id) ==
    \E j \in DOMAIN sale_items : sale_items[j].product_id = product_id

\* a barcode column without the UNIQUE index
BarcodeTaken_NoIndex(barcode, product_id) == FALSE

\* products.barcode UNIQUE: would writing barcode on row product_id collide
BarcodeTaken(barcode, product_id) ==
    /\ barcode # ""
    /\ \E id \in DOMAIN products :
          id # product_id /\ products[id].exists /\ products[id].barcode = barcode

\* products.quantity: the values the column stores
QuantityColumn(value) == value \in Int

\* cursor.rowcount of an UPDATE of one row: MySQL counts the rows it changed
RowCount(old, new) == IF old.exists /\ old # new THEN 1 ELSE 0

----------------------------------------------------------------------------
(* Calls and returns *)

IdleFrame ==
    [pid |-> 0, qty |-> 0, i |-> 0, sale_id |-> 0, new_quantity |-> 0, product |-> NoProduct]

NoResult == [op |-> "", pid |-> 0, qty |-> 0, status |-> "none", ok |-> FALSE, id |-> 0]

Returned(op, pid, qty, ok, id) ==
    [op |-> op, pid |-> pid, qty |-> qty, status |-> "returned", ok |-> ok, id |-> id]

\* require_permission: raise PermissionError(...)
Raised(op, pid, qty) ==
    [op |-> op, pid |-> pid, qty |-> qty, status |-> "raised", ok |-> FALSE, id |-> 0]

Return(t, r) ==
    /\ pc' = [pc EXCEPT ![t] = "idle"]
    /\ frame' = [frame EXCEPT ![t] = IdleFrame]
    /\ result' = [result EXCEPT ![t] = r]

Goto(t, label, f) ==
    /\ pc' = [pc EXCEPT ![t] = label]
    /\ frame' = [frame EXCEPT ![t] = f]
    /\ UNCHANGED result

----------------------------------------------------------------------------
(* core/services/sales_service.py: the cart *)

\* index of the first line of the cart for product_id (0: none)
LineOf(sale, product_id) ==
    LET hits == {i \in DOMAIN sale.items : sale.items[i].product_id = product_id}
    IN IF hits = {} THEN 0 ELSE CHOOSE i \in hits : \A j \in hits : i <= j

\* the quantity of product_id in the cart's lines
LineQuantity(sale, product_id) ==
    IF LineOf(sale, product_id) = 0 THEN 0
    ELSE sale.items[LineOf(sale, product_id)].quantity

\* add_product_to_sale without the stock check of lines 131-133
add_product_to_sale_NoStockCheck(sale, product, product_id, quantity) ==
    IF ~product.found THEN [sale |-> sale, ret |-> FALSE]
    ELSE IF LineOf(sale, product_id) # 0
    THEN [sale |-> [sale EXCEPT !.items[LineOf(sale, product_id)].quantity = @ + quantity],
          ret |-> TRUE]
    ELSE [sale |-> [sale EXCEPT !.items =
                       Append(@, SaleItem(product_id, product.name, quantity, product.price))],
          ret |-> TRUE]

\* add_product_to_sale without the merge loop of lines 136-140
add_product_to_sale_AlwaysAppend(sale, product, product_id, quantity) ==
    IF ~product.found THEN [sale |-> sale, ret |-> FALSE]
    ELSE IF product.quantity < quantity THEN [sale |-> sale, ret |-> FALSE]
    ELSE [sale |-> [sale EXCEPT !.items =
                       Append(@, SaleItem(product_id, product.name, quantity, product.price))],
          ret |-> TRUE]

\* add_product_to_sale taking the product's current price when it merges
add_product_to_sale_Reprices(sale, product, product_id, quantity) ==
    IF ~product.found THEN [sale |-> sale, ret |-> FALSE]
    ELSE IF product.quantity < quantity THEN [sale |-> sale, ret |-> FALSE]
    ELSE IF LineOf(sale, product_id) # 0
    THEN [sale |-> [sale EXCEPT !.items[LineOf(sale, product_id)] =
                       [@ EXCEPT !.quantity = @ + quantity, !.unit_price = product.price]],
          ret |-> TRUE]
    ELSE [sale |-> [sale EXCEPT !.items =
                       Append(@, SaleItem(product_id, product.name, quantity, product.price))],
          ret |-> TRUE]

\* add_product_to_sale after the product lookup: the cart and the return value
add_product_to_sale(sale, product, product_id, quantity) ==
    IF ~product.found THEN [sale |-> sale, ret |-> FALSE]
    ELSE IF product.quantity < quantity THEN [sale |-> sale, ret |-> FALSE]
    ELSE IF LineOf(sale, product_id) # 0
    THEN [sale |-> [sale EXCEPT !.items[LineOf(sale, product_id)].quantity = @ + quantity],
          ret |-> TRUE]
    ELSE [sale |-> [sale EXCEPT !.items =
                       Append(@, SaleItem(product_id, product.name, quantity, product.price))],
          ret |-> TRUE]

RemoveAt(seq, i) == SubSeq(seq, 1, i - 1) \o SubSeq(seq, i + 1, Len(seq))

\* remove_product_from_sale popping the line whatever the quantity asked for
remove_product_from_sale_AlwaysPop(sale, product_id, omitted, quantity) ==
    IF LineOf(sale, product_id) = 0 THEN [sale |-> sale, ret |-> FALSE]
    ELSE [sale |-> [sale EXCEPT !.items = RemoveAt(@, LineOf(sale, product_id))],
          ret |-> TRUE]

\* remove_product_from_sale acting on the first line when no line matches
remove_product_from_sale_FirstLine(sale, product_id, omitted, quantity) ==
    LET i == IF LineOf(sale, product_id) = 0 /\ sale.items # <<>>
             THEN 1 ELSE LineOf(sale, product_id)
    IN IF i = 0 THEN [sale |-> sale, ret |-> FALSE]
       ELSE IF omitted \/ sale.items[i].quantity <= quantity
       THEN [sale |-> [sale EXCEPT !.items = RemoveAt(@, i)], ret |-> FALSE]
       ELSE [sale |-> [sale EXCEPT !.items[i].quantity = @ - quantity], ret |-> FALSE]

\* remove_product_from_sale; omitted = TRUE is quantity=None
remove_product_from_sale(sale, product_id, omitted, quantity) ==
    LET i == LineOf(sale, product_id)
    IN IF i = 0 THEN [sale |-> sale, ret |-> FALSE]
       ELSE IF omitted \/ sale.items[i].quantity <= quantity
       THEN [sale |-> [sale EXCEPT !.items = RemoveAt(@, i)], ret |-> TRUE]
       ELSE [sale |-> [sale EXCEPT !.items[i].quantity = @ - quantity], ret |-> TRUE]

\* add_product_to_sale writing to a cart that all the terminals share
AddProductToSale_SharedCart(t, product_id, quantity, up) ==
    /\ pc[t] = "idle"
    /\ LineQuantity(add_product_to_sale(cart[t], get_by_id(product_id, up),
                                        product_id, quantity).sale,
                    product_id) <= MaxLineQty
    /\ IF ~check_permission(t, SALES_CREATE)
       THEN /\ Return(t, Raised("add_product_to_sale", product_id, quantity))
            /\ UNCHANGED cart
       ELSE LET r == add_product_to_sale(cart[t], get_by_id(product_id, up),
                                         product_id, quantity)
            IN /\ cart' = [u \in Terminals |-> r.sale]
               /\ Return(t, Returned("add_product_to_sale", product_id, quantity, r.ret, 0))
    /\ UNCHANGED <<db, session>>

AddProductToSale(t, product_id, quantity, up) ==
    /\ pc[t] = "idle"
    /\ LineQuantity(add_product_to_sale(cart[t], get_by_id(product_id, up),
                                        product_id, quantity).sale,
                    product_id) <= MaxLineQty
    /\ IF ~check_permission(t, SALES_CREATE)
       THEN /\ Return(t, Raised("add_product_to_sale", product_id, quantity))
            /\ UNCHANGED cart
       ELSE LET r == add_product_to_sale(cart[t], get_by_id(product_id, up),
                                         product_id, quantity)
            IN /\ cart' = [cart EXCEPT ![t] = r.sale]
               /\ Return(t, Returned("add_product_to_sale", product_id, quantity, r.ret, 0))
    /\ UNCHANGED <<db, session>>

RemoveProductFromSale(t, product_id, omitted, quantity) ==
    /\ pc[t] = "idle"
    /\ IF ~check_permission(t, SALES_CREATE)
       THEN /\ Return(t, Raised("remove_product_from_sale", product_id, quantity))
            /\ UNCHANGED cart
       ELSE LET r == remove_product_from_sale(cart[t], product_id, omitted, quantity)
            IN /\ cart' = [cart EXCEPT ![t] = r.sale]
               /\ Return(t, Returned("remove_product_from_sale", product_id, quantity,
                                     r.ret, 0))
    /\ UNCHANGED <<db, session>>

\* ui/screens/sales.py: self.current_sale = Sale(user_id=self.get_current_user().id)
NewSale(t) ==
    /\ pc[t] = "idle"
    /\ session[t].active
    /\ cart[t].items # <<>>
    /\ cart' = [cart EXCEPT ![t] = NewSaleObject(session[t].user_id)]
    /\ UNCHANGED <<db, session, pc, frame, result>>

----------------------------------------------------------------------------
(* core/services/sales_service.py create_sale and                          *)
(* db/repositories/sales_repo.py create_sale_with_items                    *)

SaleRow(id, sale) ==
    [id |-> id, user_id |-> sale.user_id, total_amount |-> sale.total_amount]

SaleItemRow(sale_id, item) ==
    [sale_id |-> sale_id, product_id |-> item.product_id, quantity |-> item.quantity,
     unit_price |-> item.unit_price]

RECURSIVE ItemRows(_, _)
ItemRows(sale_id, items) ==
    IF items = <<>> THEN <<>>
    ELSE <<SaleItemRow(sale_id, Head(items))>> \o ItemRows(sale_id, Tail(items))

\* a decrement by one unit per line instead of the line's quantity
RECURSIVE Decremented_ByOne(_, _)
Decremented_ByOne(rows, items) ==
    IF items = <<>> THEN rows
    ELSE Decremented_ByOne(
            [rows EXCEPT ![Head(items).product_id].quantity = @ - 1], Tail(items))

\* UPDATE products SET quantity = quantity - %s WHERE id = %s, for every line
RECURSIVE Decremented(_, _)
Decremented(rows, items) ==
    IF items = <<>> THEN rows
    ELSE Decremented(
            [rows EXCEPT ![Head(items).product_id].quantity = @ - Head(items).quantity],
            Tail(items))

\* conn.commit(): the rows the transaction wrote become the stored rows
Committed(tables, sale_id, sale) ==
    [products |-> Decremented(tables.products, sale.items),
     sales |-> Append(tables.sales, SaleRow(sale_id, sale)),
     sale_items |-> tables.sale_items \o ItemRows(sale_id, sale.items)]

\* a rollback that keeps what was written (statements committed one by one)
RolledBack_KeepsWrites(tables, sale_id, sale) == Committed(tables, sale_id, sale)

\* conn.rollback(): nothing the transaction wrote is stored
RolledBack(tables, sale_id, sale) == tables

Tables == [products |-> products, sales |-> sales, sale_items |-> sale_items]

Store(tables) ==
    /\ products' = tables.products
    /\ sales' = tables.sales
    /\ sale_items' = tables.sale_items

\* the quantity of a product as t's open transaction sees it
PendingQuantity(t, product_id) ==
    Decremented(products, WrittenLines(t))[product_id].quantity

CreateSaleFail(t) == Return(t, Returned("create_sale", 0, 0, FALSE, 0))

\* create_sale without the empty-cart return of lines 21-23
CreateSaleBegin_NoEmptyCheck(t) ==
    /\ pc[t] = "idle"
    /\ IF ~check_permission(t, SALES_CREATE)
       THEN Return(t, Raised("create_sale", 0, 0)) /\ UNCHANGED cart
       ELSE IF ~session[t].active
       THEN CreateSaleFail(t) /\ UNCHANGED cart
       ELSE /\ cart' = [cart EXCEPT ![t] =
                          calculate_total([@ EXCEPT !.user_id = session[t].user_id])]
            /\ Goto(t, IF cart[t].items = <<>> THEN "cs_insert" ELSE "cs_validate",
                    [IdleFrame EXCEPT !.i = 1])
    /\ UNCHANGED <<db, session>>

\* create_sale storing the user_id the Sale object came with
CreateSaleBegin_KeepsUserId(t) ==
    /\ pc[t] = "idle"
    /\ IF ~check_permission(t, SALES_CREATE)
       THEN Return(t, Raised("create_sale", 0, 0)) /\ UNCHANGED cart
       ELSE IF cart[t].items = <<>>
       THEN CreateSaleFail(t) /\ UNCHANGED cart
       ELSE IF ~session[t].active
       THEN CreateSaleFail(t) /\ UNCHANGED cart
       ELSE /\ cart' = [cart EXCEPT ![t] = calculate_total(@)]
            /\ Goto(t, "cs_validate", [IdleFrame EXCEPT !.i = 1])
    /\ UNCHANGED <<db, session>>

\* create_sale lines 17-34: permission, empty cart, session, user_id, total
CreateSaleBegin(t) ==
    /\ pc[t] = "idle"
    /\ IF ~check_permission(t, SALES_CREATE)
       THEN Return(t, Raised("create_sale", 0, 0)) /\ UNCHANGED cart
       ELSE IF cart[t].items = <<>>
       THEN CreateSaleFail(t) /\ UNCHANGED cart
       ELSE IF ~session[t].active
       THEN CreateSaleFail(t) /\ UNCHANGED cart
       ELSE /\ cart' = [cart EXCEPT ![t] =
                          calculate_total([@ EXCEPT !.user_id = session[t].user_id])]
            /\ Goto(t, "cs_validate", [IdleFrame EXCEPT !.i = 1])
    /\ UNCHANGED <<db, session>>

\* the validation without the stock comparison of lines 45-47
validate_item_ExistsOnly(product, item) == product.found

\* create_sale lines 41-47: the product exists and has enough stock
validate_item(product, item) ==
    IF ~product.found THEN FALSE
    ELSE IF product.quantity < item.quantity THEN FALSE
    ELSE TRUE

\* create_sale lines 37-50: one pass of the validation loop
CreateSaleValidate(t, up) ==
    /\ pc[t] = "cs_validate"
    /\ LET i == frame[t].i
           item == cart[t].items[i]
           product == get_by_id(item.product_id, up)
       IN IF ~validate_item(product, item)
          THEN CreateSaleFail(t) /\ UNCHANGED cart
          ELSE /\ cart' = [cart EXCEPT ![t].items[i].product_name = product.name]
               /\ Goto(t, IF i = Len(cart[t].items) THEN "cs_insert" ELSE "cs_validate",
                       [frame[t] EXCEPT !.i = i + 1])
    /\ UNCHANGED <<db, session>>

\* create_sale_with_items lines 115-133: start_transaction, INSERT INTO sales
InsertSale(t, up) ==
    /\ pc[t] = "cs_insert"
    /\ IF up
       THEN /\ next_sale_id' = next_sale_id + 1
            /\ Goto(t, "cs_items", [frame[t] EXCEPT !.sale_id = next_sale_id, !.i = 1])
       ELSE /\ CreateSaleFail(t)
            /\ UNCHANGED next_sale_id
    /\ UNCHANGED <<products, sales, sale_items, session, cart>>

\* create_sale_with_items lines 141-155: INSERT INTO sale_items and UPDATE
\* products for one line; the except branch (lines 166-174) on an error
InsertItem(t, up) ==
    /\ pc[t] = "cs_items"
    /\ LET i == frame[t].i
           item == cart[t].items[i]
       IN /\ up => ~LockedByOther(t, item.product_id)
          /\ IF /\ up
                /\ item.product_id \in DOMAIN products
                /\ products[item.product_id].exists
                /\ QuantityColumn(PendingQuantity(t, item.product_id) - item.quantity)
             THEN /\ Goto(t, IF i = Len(cart[t].items) THEN "cs_commit" ELSE "cs_items",
                          [frame[t] EXCEPT !.i = i + 1])
                  /\ UNCHANGED <<products, sales, sale_items>>
             ELSE /\ Store(RolledBack(Tables, frame[t].sale_id,
                                      [cart[t] EXCEPT !.items = WrittenLines(t)]))
                  /\ CreateSaleFail(t)
    /\ UNCHANGED <<next_sale_id, session, cart>>

\* a commit that empties the cart it was given when it fails
CommitSale_ConsumesCart(t, up) ==
    /\ pc[t] = "cs_commit"
    /\ IF up
       THEN /\ Store(Committed(Tables, frame[t].sale_id, cart[t]))
            /\ Return(t, Returned("create_sale", 0, 0, TRUE, frame[t].sale_id))
            /\ UNCHANGED cart
       ELSE /\ Store(RolledBack(Tables, frame[t].sale_id, cart[t]))
            /\ CreateSaleFail(t)
            /\ cart' = [cart EXCEPT ![t].items = <<>>]
    /\ UNCHANGED <<next_sale_id, session>>

\* create_sale_with_items lines 157-164: conn.commit() and return True, sale_id
CommitSale(t, up) ==
    /\ pc[t] = "cs_commit"
    /\ IF up
       THEN /\ Store(Committed(Tables, frame[t].sale_id, cart[t]))
            /\ Return(t, Returned("create_sale", 0, 0, TRUE, frame[t].sale_id))
       ELSE /\ Store(RolledBack(Tables, frame[t].sale_id, cart[t]))
            /\ CreateSaleFail(t)
    /\ UNCHANGED <<next_sale_id, session, cart>>

----------------------------------------------------------------------------
(* core/services/inventory_service.py and db/repositories/product_repo.py *)

\* update_stock lines 98-116: permission, get_by_id, the service's own check
UpdateStockBegin(t, product_id, quantity_change, up) ==
    /\ pc[t] = "idle"
    /\ product_id \in DOMAIN products => products[product_id].quantity + quantity_change <= MaxStock
    /\ IF ~check_permission(t, INVENTORY_EDIT)
       THEN Return(t, Raised("update_stock", product_id, quantity_change))
       ELSE LET product == get_by_id(product_id, up)
            IN IF ~product.found
               THEN Return(t, Returned("update_stock", product_id, quantity_change, FALSE, 0))
               ELSE IF product.quantity + quantity_change < 0
               THEN Return(t, Returned("update_stock", product_id, quantity_change, FALSE, 0))
               ELSE Goto(t, "uq_select",
                         [IdleFrame EXCEPT !.pid = product_id, !.qty = quantity_change])
    /\ UNCHANGED <<db, session, cart>>

\* update_quantity lines 228-250: SELECT quantity, new_quantity, the check
UpdateQuantitySelect(t, up) ==
    /\ pc[t] = "uq_select"
    /\ LET product_id == frame[t].pid
           quantity_change == frame[t].qty
           new_quantity == products[product_id].quantity + quantity_change
       IN /\ new_quantity <= MaxStock
          /\ IF ~up \/ ~products[product_id].exists
             THEN Return(t, Returned("update_stock", product_id, quantity_change, FALSE, 0))
             ELSE IF new_quantity < 0
             THEN Return(t, Returned("update_stock", product_id, quantity_change, FALSE, 0))
             ELSE Goto(t, "uq_update", [frame[t] EXCEPT !.new_quantity = new_quantity])
    /\ UNCHANGED <<db, session, cart>>

\* update_quantity lines 252-275: UPDATE products SET quantity = %s, commit
UpdateQuantityWrite(t, up) ==
    /\ pc[t] = "uq_update"
    /\ LET product_id == frame[t].pid
           old == products[product_id]
           new == [old EXCEPT !.quantity = frame[t].new_quantity]
       IN /\ up => ~LockedByOther(t, product_id)
          /\ IF up
             THEN /\ products' = [products EXCEPT ![product_id] =
                                     IF old.exists THEN new ELSE old]
                  /\ Return(t, Returned("update_stock", product_id, frame[t].qty,
                                        RowCount(old, new) > 0, 0))
             ELSE /\ UNCHANGED products
                  /\ Return(t, Returned("update_stock", product_id, frame[t].qty, FALSE, 0))
    /\ UNCHANGED <<sales, sale_items, next_sale_id, session, cart>>

\* update_product lines 67-92: permission, validation, the barcode lookup
UpdateProductBegin(t, product, up) ==
    /\ pc[t] = "idle"
    /\ LET fail == Return(t, Returned("update_product", product.id, product.quantity, FALSE, 0))
       IN IF ~check_permission(t, INVENTORY_EDIT)
          THEN Return(t, Raised("update_product", product.id, product.quantity))
          ELSE IF product.id = 0 THEN fail
          ELSE IF product.name = "" THEN fail
          ELSE IF product.price < 0 THEN fail
          ELSE IF product.quantity < 0 THEN fail
          ELSE IF /\ product.barcode # ""
                  /\ get_by_barcode(product.barcode, up).found
                  /\ get_by_barcode(product.barcode, up).id # product.id
          THEN fail
          ELSE Goto(t, "up_update", [IdleFrame EXCEPT !.product = product])
    /\ UNCHANGED <<db, session, cart>>

\* product_repo.update lines 181-220: UPDATE products SET barcode, name,
\* price, quantity WHERE id, commit, rowcount
UpdateProductWrite(t, up) ==
    /\ pc[t] = "up_update"
    /\ LET product == frame[t].product
           old == IF product.id \in DOMAIN products THEN products[product.id] ELSE NoRow
           new == ProductRow(product.barcode, product.name, product.price, product.quantity)
           raised == ~up \/ (old.exists /\ BarcodeTaken(product.barcode, product.id))
       IN /\ up => ~LockedByOther(t, product.id)
          /\ IF raised
             THEN /\ UNCHANGED products
                  /\ Return(t, Returned("update_product", product.id, product.quantity,
                                        FALSE, 0))
             ELSE /\ products' = IF old.exists
                                 THEN [products EXCEPT ![product.id] = new]
                                 ELSE products
                  /\ Return(t, Returned("update_product", product.id, product.quantity,
                                        RowCount(old, new) > 0, 0))
    /\ UNCHANGED <<sales, sale_items, next_sale_id, session, cart>>

\* create_product without the price check of lines 48-50
CreateProductBegin_NoPriceCheck(t, product, up) ==
    /\ pc[t] = "idle"
    /\ LET fail == Return(t, Returned("create_product", 0, product.quantity, FALSE, 0))
       IN IF ~check_permission(t, INVENTORY_EDIT)
          THEN Return(t, Raised("create_product", 0, product.quantity))
          ELSE IF product.name = "" THEN fail
          ELSE IF product.quantity < 0 THEN fail
          ELSE IF product.barcode # "" /\ get_by_barcode(product.barcode, up).found
          THEN fail
          ELSE Goto(t, "cp_insert", [IdleFrame EXCEPT !.product = product])
    /\ UNCHANGED <<db, session, cart>>

\* create_product lines 40-64: permission, validation, the barcode lookup
CreateProductBegin(t, product, up) ==
    /\ pc[t] = "idle"
    /\ LET fail == Return(t, Returned("create_product", 0, product.quantity, FALSE, 0))
       IN IF ~check_permission(t, INVENTORY_EDIT)
          THEN Return(t, Raised("create_product", 0, product.quantity))
          ELSE IF product.name = "" THEN fail
          ELSE IF product.price < 0 THEN fail
          ELSE IF product.quantity < 0 THEN fail
          ELSE IF product.barcode # "" /\ get_by_barcode(product.barcode, up).found
          THEN fail
          ELSE Goto(t, "cp_insert", [IdleFrame EXCEPT !.product = product])
    /\ UNCHANGED <<db, session, cart>>

\* product_repo.create lines 146-178: INSERT INTO products, commit, lastrowid
CreateProductWrite(t, up) ==
    /\ pc[t] = "cp_insert"
    /\ LET product == frame[t].product
           new == ProductRow(product.barcode, product.name, product.price, product.quantity)
           raised == ~up \/ BarcodeTaken(product.barcode, 0)
       IN IF raised
          THEN /\ UNCHANGED products
               /\ Return(t, Returned("create_product", 0, product.quantity, FALSE, 0))
          ELSE /\ products' = Append(products, new)
               /\ Return(t, Returned("create_product", 0, product.quantity, TRUE,
                                     Len(products) + 1))
    /\ UNCHANGED <<sales, sale_items, next_sale_id, session, cart>>

\* delete_product and product_repo.delete lines 278-302
DeleteProduct(t, product_id, up) ==
    /\ pc[t] = "idle"
    /\ up => ~LockedByOther(t, product_id)
    /\ IF ~check_permission(t, INVENTORY_EDIT)
       THEN /\ Return(t, Raised("delete_product", product_id, 0))
            /\ UNCHANGED products
       ELSE LET old == IF product_id \in DOMAIN products THEN products[product_id] ELSE NoRow
                raised == ~up \/ (old.exists /\ Referenced(product_id))
            IN IF raised \/ ~old.exists
               THEN /\ UNCHANGED products
                    /\ Return(t, Returned("delete_product", product_id, 0, FALSE, 0))
               ELSE /\ products' = [products EXCEPT ![product_id] = NoRow]
                    /\ Return(t, Returned("delete_product", product_id, 0, TRUE, 0))
    /\ UNCHANGED <<sales, sale_items, next_sale_id, session, cart>>

----------------------------------------------------------------------------
(* The system *)

\* product ids a caller may name: the stored ones and one that was never stored
RequestIds == ProductIds \cup {3}

\* the Product objects an edit may carry
Edits ==
    [found : {TRUE}, id : ProductIds, barcode : Barcodes, name : Names,
     price : Prices, quantity : 0..MaxStock]

\* the carts add_product_to_sale can have built: at most one line per product
Lines == [product_id : ProductIds, product_name : Names, quantity : 1..MaxLineQty,
          unit_price : Prices]

CartItems ==
    {<<>>} \cup {<<l>> : l \in Lines}
           \cup {c \in Lines \X Lines : c[1].product_id # c[2].product_id}

InitDb ==
    /\ products = [id \in ProductIds |-> ProductRow("", "tea", 10, MaxStock)]
    /\ sales = <<>>
    /\ sale_items = <<>>
    /\ next_sale_id = 1

InitTerminals ==
    /\ session = [t \in Terminals |-> login(UserOf(t))]
    /\ pc = [t \in Terminals |-> "idle"]
    /\ frame = [t \in Terminals |-> IdleFrame]
    /\ result = [t \in Terminals |-> NoResult]

\* Two terminals, each making one call: a terminal holding a cart built
\* earlier checks it out, a terminal with an empty cart does inventory work.
Init ==
    /\ InitDb
    /\ InitTerminals
    /\ cart \in [Terminals -> {[NewSaleObject(0) EXCEPT !.items = items] : items \in CartItems}]

FirstCall(t) == result[t] = NoResult

Stockroom(t) == FirstCall(t) /\ cart[t].items = <<>>

Next ==
    \E t \in Terminals :
        \/ FirstCall(t) /\ CreateSaleBegin(t)
        \/ \E up \in BOOLEAN : CreateSaleValidate(t, up)
        \/ \E up \in BOOLEAN : InsertSale(t, up)
        \/ \E up \in BOOLEAN : InsertItem(t, up)
        \/ \E up \in BOOLEAN : CommitSale(t, up)
        \/ \E product_id \in ProductIds, quantity_change \in -MaxStock..MaxStock,
              up \in BOOLEAN :
              Stockroom(t) /\ UpdateStockBegin(t, product_id, quantity_change, up)
        \/ \E up \in BOOLEAN : UpdateQuantitySelect(t, up)
        \/ \E up \in BOOLEAN : UpdateQuantityWrite(t, up)
        \/ \E product \in Edits, up \in BOOLEAN :
              Stockroom(t) /\ UpdateProductBegin(t, product, up)
        \/ \E up \in BOOLEAN : UpdateProductWrite(t, up)
        \/ \E product_id \in ProductIds, up \in BOOLEAN :
              Stockroom(t) /\ DeleteProduct(t, product_id, up)

Spec == Init /\ [][Next]_vars

\* The same two terminals when the storage never raises.
NextUp ==
    \E t \in Terminals :
        \/ FirstCall(t) /\ CreateSaleBegin(t)
        \/ CreateSaleValidate(t, TRUE)
        \/ InsertSale(t, TRUE)
        \/ InsertItem(t, TRUE)
        \/ CommitSale(t, TRUE)
        \/ \E product_id \in ProductIds, quantity_change \in -MaxStock..MaxStock :
              Stockroom(t) /\ UpdateStockBegin(t, product_id, quantity_change, TRUE)
        \/ UpdateQuantitySelect(t, TRUE)
        \/ UpdateQuantityWrite(t, TRUE)
        \/ \E product \in Edits : Stockroom(t) /\ UpdateProductBegin(t, product, TRUE)
        \/ UpdateProductWrite(t, TRUE)
        \/ \E product_id \in ProductIds : Stockroom(t) /\ DeleteProduct(t, product_id, TRUE)

SpecUp == Init /\ [][NextUp]_vars

\* One terminal building a cart and changing the stock between the calls.
InitCart ==
    /\ InitDb
    /\ InitTerminals
    /\ cart = [t \in Terminals |-> NewSaleObject(UserOf(t).id)]

NextCart ==
    \/ \E product_id \in RequestIds, quantity \in 1..MaxLineQty, up \in BOOLEAN :
          AddProductToSale(1, product_id, quantity, up)
    \/ \E product_id \in RequestIds, omitted \in BOOLEAN, quantity \in 1..MaxLineQty :
          RemoveProductFromSale(1, product_id, omitted, quantity)
    \/ NewSale(1)
    \/ \E product_id \in ProductIds, quantity_change \in {-1, 1}, up \in BOOLEAN :
          UpdateStockBegin(1, product_id, quantity_change, up)
    \/ \E up \in BOOLEAN : UpdateQuantitySelect(1, up)
    \/ \E up \in BOOLEAN : UpdateQuantityWrite(1, up)
    \/ \E product_id \in ProductIds, up \in BOOLEAN : DeleteProduct(1, product_id, up)

SpecCart == InitCart /\ [][NextCart]_vars

\* Two terminals editing the catalogue, each making one call.
CatalogBarcodes == {"", "b1", "b2"}

\* the Product objects the product dialogs can hand to the service: id 0 is
\* a product without id, id 3 one that was never stored
CatalogProducts ==
    [found : {TRUE}, id : {0} \cup RequestIds, barcode : CatalogBarcodes,
     name : {"", "tea"}, price : {-1, 10}, quantity : {-1, 1, MaxStock}]

InitCatalog ==
    /\ products = <<ProductRow("b1", "tea", 10, MaxStock), ProductRow("", "tea", 10, MaxStock)>>
    /\ sales = <<>>
    /\ sale_items = <<>>
    /\ next_sale_id = 1
    /\ InitTerminals
    /\ cart = [t \in Terminals |-> NewSaleObject(UserOf(t).id)]

NextCatalog ==
    \E t \in Terminals :
        \/ \E product \in CatalogProducts, up \in BOOLEAN :
              FirstCall(t) /\ product.id = 0 /\ CreateProductBegin(t, product, up)
        \/ \E up \in BOOLEAN : CreateProductWrite(t, up)
        \/ \E product \in CatalogProducts, up \in BOOLEAN :
              FirstCall(t) /\ UpdateProductBegin(t, product, up)
        \/ \E up \in BOOLEAN : UpdateProductWrite(t, up)

SpecCatalog == InitCatalog /\ [][NextCatalog]_vars

----------------------------------------------------------------------------
(* Properties *)

\* the quantity every product starts with (InitDb)
InitialQuantity == MaxStock

Other(t) == CHOOSE u \in Terminals : u # t

ReturnedFrom(t, op) == result[t].op = op /\ result[t].status = "returned"

Succeeded(t, op) == ReturnedFrom(t, op) /\ result[t].ok

\* C1: in every reachable state every product's quantity-on-hand is >= 0,
\* whatever the interleaving of stock adjustments, edits and sale commits.
C1_QuantityNeverNegative ==
    \A id \in ProductIds : products[id].exists => products[id].quantity >= 0

\* C2: two concurrent update_stock calls on one product, each delta passing
\* q + d >= 0 on the quantity q both calls started from but with
\* q + d1 + d2 < 0: at most one of the two calls returns success.
C2_AtMostOneAdjustmentSucceeds ==
    \A t \in Terminals :
        LET u == Other(t)
            d1 == result[t].qty
            d2 == result[u].qty
        IN (/\ ReturnedFrom(t, "update_stock")
            /\ ReturnedFrom(u, "update_stock")
            /\ result[t].pid = result[u].pid
            /\ InitialQuantity + d1 >= 0
            /\ InitialQuantity + d2 >= 0
            /\ InitialQuantity + d1 + d2 < 0)
           => ~(result[t].ok /\ result[u].ok)

\* a cart holding exactly one line, for product_id
OneLineFor(sale, product_id) ==
    Len(sale.items) = 1 /\ sale.items[1].product_id = product_id

\* C3: two carts each holding a line for the same product, each quantity <= q
\* and their sum > q, both committed: exactly one create_sale succeeds, the
\* other fails, and the final quantity is q minus the successful line.
C3_ExactlyOneCommitSucceeds ==
    \A t \in Terminals, id \in ProductIds :
        LET u == Other(t)
            a == cart[t].items[1].quantity
            b == cart[u].items[1].quantity
        IN (/\ OneLineFor(cart[t], id)
            /\ OneLineFor(cart[u], id)
            /\ ReturnedFrom(t, "create_sale")
            /\ ReturnedFrom(u, "create_sale")
            /\ a <= InitialQuantity
            /\ b <= InitialQuantity
            /\ a + b > InitialQuantity)
           => /\ result[t].ok # result[u].ok
              /\ result[t].ok => products[id].quantity = InitialQuantity - a
              /\ result[u].ok => products[id].quantity = InitialQuantity - b

\* t took a step of its running call
Stepped(t) == <<pc[t], frame[t], result[t]>>' # <<pc[t], frame[t], result[t]>>

StoredRowsUnchanged == UNCHANGED <<products, sales, sale_items>>

\* C4: a create_sale that fails after validation (anywhere inside
\* create_sale_with_items) leaves no sale row, no sale_items row and no stock
\* decrement: no step of the call other than its successful return changes
\* the stored rows.
C4_FailedCommitWritesNothing ==
    [][\A t \in Terminals :
          (/\ pc[t] \in {"cs_insert", "cs_items", "cs_commit"}
           /\ Stepped(t)
           /\ ~(pc'[t] = "idle" /\ result'[t].ok))
          => StoredRowsUnchanged]_vars

\* a commit of t failed inside create_sale_with_items: the other terminal has
\* not called yet, a sale id was drawn, and there is no sale
C4_Witness ==
    \E t \in Terminals :
        /\ ReturnedFrom(t, "create_sale") /\ ~result[t].ok
        /\ result[Other(t)] = NoResult /\ pc[Other(t)] = "idle"
        /\ next_sale_id = 2
        /\ Len(cart[t].items) = 2
        /\ sales = <<>> /\ sale_items = <<>>
        /\ \A id \in ProductIds : products[id].quantity = InitialQuantity

\* the stored line items of sale_id, in insertion order
RECURSIVE ItemsOf(_, _)
ItemsOf(sale_id, rows) ==
    IF rows = <<>> THEN <<>>
    ELSE IF Head(rows).sale_id = sale_id
    THEN <<Head(rows)>> \o ItemsOf(sale_id, Tail(rows))
    ELSE ItemsOf(sale_id, Tail(rows))

RECURSIVE SumRows(_)
SumRows(rows) ==
    IF rows = <<>> THEN 0
    ELSE Head(rows).quantity * Head(rows).unit_price + SumRows(Tail(rows))

\* C5: every committed sale's total_amount is the sum of quantity * unit_price
\* over its stored line items, whatever total the Sale object carried.
C5_TotalIsSumOfLines ==
    \A k \in DOMAIN sales :
        sales[k].total_amount = SumRows(ItemsOf(sales[k].id, sale_items))

\* a sale is stored whose cart carried a total (0) other than its lines' sum
C5_Witness ==
    \E k \in DOMAIN sales :
        /\ Len(ItemsOf(sales[k].id, sale_items)) = 2
        /\ sales[k].total_amount > 0

\* the stored quantity of a line's product is missing or below the line
Unavailable(item) ==
    \/ ~products[item.product_id].exists
    \/ products[item.product_id].quantity < item.quantity

\* C6: when create_sale re-reads a line's product and finds it missing or with
\* less stock than the line asks for, the call returns failure and nothing is
\* written; no step of the validation writes a row.
C6_ValidationFailureWritesNothing ==
    [][\A t \in Terminals :
          (pc[t] = "cs_validate" /\ Stepped(t))
          => /\ StoredRowsUnchanged
             /\ next_sale_id' = next_sale_id
             /\ Unavailable(cart[t].items[frame[t].i])
                   => /\ pc'[t] = "idle"
                      /\ result'[t] = Returned("create_sale", 0, 0, FALSE, 0)]_vars

\* a two-line cart was refused at validation because the stock of its second
\* line had dropped: no sale id was drawn, no row stored, first line untouched
C6_Witness ==
    \E t \in Terminals :
        /\ ReturnedFrom(t, "create_sale") /\ ~result[t].ok
        /\ Len(cart[t].items) = 2
        /\ ~Unavailable(cart[t].items[1])
        /\ Unavailable(cart[t].items[2])
        /\ products[cart[t].items[1].product_id].quantity = InitialQuantity
        /\ next_sale_id = 1
        /\ sales = <<>> /\ sale_items = <<>>

\* C7: a create_sale that succeeds with no other call running stores exactly
\* one sale whose lines are the cart's lines (product, quantity, unit price),
\* lowers each product by its line's quantity, leaves the other products as
\* they were and returns the new sale's id.
C7_CommitStoresTheCart ==
    \A t \in Terminals :
        (/\ Succeeded(t, "create_sale")
         /\ result[Other(t)] = NoResult
         /\ pc[Other(t)] = "idle")
        => /\ Len(sales) = 1
           /\ sales[1].id = result[t].id
           /\ result[t].id = 1
           /\ Len(sale_items) = Len(cart[t].items)
           /\ \A i \in DOMAIN sale_items :
                 /\ sale_items[i].sale_id = result[t].id
                 /\ sale_items[i].product_id = cart[t].items[i].product_id
                 /\ sale_items[i].quantity = cart[t].items[i].quantity
                 /\ sale_items[i].unit_price = cart[t].items[i].unit_price
           /\ \A id \in ProductIds :
                 products[id] =
                     ProductRow("", "tea", 10, InitialQuantity - LineQuantity(cart[t], id))

\* a two-line cart was committed alone
C7_Witness ==
    \E t \in Terminals :
        /\ Succeeded(t, "create_sale")
        /\ result[Other(t)] = NoResult /\ pc[Other(t)] = "idle"
        /\ Len(cart[t].items) = 2
        /\ cart[t].items[1].quantity = 2

\* the step is terminal t's call add_product_to_sale(sale, product_id, quantity)
AddStep(t, product_id, quantity) ==
    /\ pc[t] = "idle"
    /\ result'[t].op = "add_product_to_sale"
    /\ result'[t].pid = product_id
    /\ result'[t].qty = quantity
    /\ \E up \in BOOLEAN : AddProductToSale(t, product_id, quantity, up)

\* there is no stored row for product_id
Missing(product_id) ==
    product_id \notin DOMAIN products \/ ~products[product_id].exists

\* C8: add_product_to_sale returns failure and leaves the cart as it was when
\* the product id is not stored or the requested quantity exceeds the
\* product's quantity-on-hand.
C8_AddRefusesMissingOrShort ==
    [][\A product_id \in RequestIds, quantity \in 1..MaxLineQty :
          (/\ Missing(product_id) \/ quantity > products[product_id].quantity
           /\ AddStep(1, product_id, quantity))
          => /\ result'[1] = Returned("add_product_to_sale", product_id, quantity, FALSE, 0)
             /\ cart' = cart]_vars

\* an add of more than the stock was refused with a line already in the cart
C8_Witness ==
    /\ ReturnedFrom(1, "add_product_to_sale")
    /\ ~result[1].ok
    /\ ~Missing(result[1].pid)
    /\ result[1].qty > products[result[1].pid].quantity
    /\ products[result[1].pid].quantity > 0
    /\ cart[1].items # <<>>

\* C9: a successful add_product_to_sale leaves the product's line with a
\* quantity (the line's earlier quantity plus the added one) that is at most
\* the quantity-on-hand the call read.
C9_CombinedQuantityWithinStock ==
    [][\A product_id \in RequestIds, quantity \in 1..MaxLineQty :
          (/\ result'[1].ok
           /\ AddStep(1, product_id, quantity))
          => LineQuantity(cart'[1], product_id) <= products[product_id].quantity]_vars

NoDuplicateLines(sale) ==
    \A i, j \in DOMAIN sale.items :
        i # j => sale.items[i].product_id # sale.items[j].product_id

\* C10: the cart never holds two lines for one product id, and an add of a
\* product already in the cart raises that line's quantity by the added amount
\* and keeps the number and the order of the lines.
C10_OneLinePerProduct ==
    [][/\ NoDuplicateLines(cart'[1])
       /\ \A product_id \in RequestIds, quantity \in 1..MaxLineQty :
             (/\ result'[1].ok
              /\ LineOf(cart[1], product_id) # 0
              /\ AddStep(1, product_id, quantity))
             => /\ Len(cart'[1].items) = Len(cart[1].items)
                /\ \A i \in DOMAIN cart[1].items :
                      cart'[1].items[i] =
                          IF i = LineOf(cart[1], product_id)
                          THEN [cart[1].items[i] EXCEPT !.quantity = @ + quantity]
                          ELSE cart[1].items[i]]_vars

\* an add was merged into the second of two lines
C10_Witness ==
    /\ Succeeded(1, "add_product_to_sale")
    /\ Len(cart[1].items) = 2
    /\ cart[1].items[2].product_id = result[1].pid
    /\ cart[1].items[2].quantity > result[1].qty

\* the step is terminal t's call remove_product_from_sale(sale, product_id,
\* quantity), quantity left out when omitted
RemoveStep(t, product_id, omitted, quantity) ==
    /\ pc[t] = "idle"
    /\ result'[t].op = "remove_product_from_sale"
    /\ result'[t].pid = product_id
    /\ result'[t].qty = quantity
    /\ RemoveProductFromSale(t, product_id, omitted, quantity)

\* items is before with its line i taken out and the later lines moved up
WithoutLine(items, before, i) ==
    /\ Len(items) = Len(before) - 1
    /\ \A j \in DOMAIN items : items[j] = IF j < i THEN before[j] ELSE before[j + 1]

\* items is before with the quantity of its line i lowered by quantity
WithLineLowered(items, before, i, quantity) ==
    /\ Len(items) = Len(before)
    /\ \A j \in DOMAIN before :
          items[j] = IF j = i
                     THEN [before[j] EXCEPT !.quantity = before[j].quantity - quantity]
                     ELSE before[j]

\* C11: remove_product_from_sale on a cart holding a line of n units of the
\* product removes the line when the quantity is omitted or is >= n, lowers
\* the line to n - quantity when quantity < n, returns True in each case and
\* leaves every other line as it was.
C11_RemoveLineOrLower ==
    [][\A product_id \in RequestIds, omitted \in BOOLEAN, quantity \in 1..MaxLineQty :
          (/\ LineOf(cart[1], product_id) # 0
           /\ RemoveStep(1, product_id, omitted, quantity))
          => LET i == LineOf(cart[1], product_id)
                 n == cart[1].items[i].quantity
             IN /\ result'[1].ok
                /\ IF omitted \/ quantity >= n
                   THEN WithoutLine(cart'[1].items, cart[1].items, i)
                   ELSE WithLineLowered(cart'[1].items, cart[1].items, i, quantity)]_vars

\* a remove lowered the second of two lines and left it in the cart
C11_Witness ==
    /\ Succeeded(1, "remove_product_from_sale")
    /\ Len(cart[1].items) = 2
    /\ LineOf(cart[1], result[1].pid) = 2
    /\ cart[1].items[2].quantity + result[1].qty <= MaxLineQty

\* C12: remove_product_from_sale for a product with no line in the cart
\* returns False, raises nothing and leaves the cart as it was.
C12_RemoveAbsentIsRefused ==
    [][\A product_id \in RequestIds, omitted \in BOOLEAN, quantity \in 1..MaxLineQty :
          (/\ LineOf(cart[1], product_id) = 0
           /\ RemoveStep(1, product_id, omitted, quantity))
          => /\ result'[1] = Returned("remove_product_from_sale", product_id, quantity,
                                      FALSE, 0)
             /\ cart' = cart]_vars

\* a remove of a product without a line was refused on a cart with two lines
C12_Witness ==
    /\ ReturnedFrom(1, "remove_product_from_sale")
    /\ ~result[1].ok
    /\ Len(cart[1].items) = 2
    /\ LineOf(cart[1], result[1].pid) = 0

\* C13: create_sale on a cart without lines returns failure in its first
\* step, before any read or write of the storage, and every stored sale has
\* at least one stored line.
C13_EmptyCartIsRejected ==
    [][/\ \A t \in Terminals :
             (/\ cart[t].items = <<>>
              /\ pc[t] = "idle"
              /\ CreateSaleBegin(t))
             => /\ result'[t] = Returned("create_sale", 0, 0, FALSE, 0)
                /\ pc'[t] = "idle"
                /\ UNCHANGED db
       /\ \A k \in DOMAIN sales' : ItemsOf(sales'[k].id, sale_items') # <<>>]_vars

\* a terminal with an empty cart was refused while the other one's sale of
\* two lines is stored
C13_Witness ==
    \E t \in Terminals :
        /\ cart[t].items = <<>>
        /\ ReturnedFrom(t, "create_sale") /\ ~result[t].ok
        /\ Succeeded(Other(t), "create_sale")
        /\ Len(sales) = 1
        /\ Len(ItemsOf(sales[1].id, sale_items)) = 2

\* the other terminal has made no call and makes none in this step
Solo(t) ==
    /\ FirstCall(Other(t)) /\ pc[Other(t)] = "idle"
    /\ pc'[Other(t)] = "idle" /\ result'[Other(t)] = NoResult

\* the first step of t's call update_stock(product_id, quantity_change)
UpdateStockStep(t, product_id, quantity_change) ==
    /\ pc[t] = "idle"
    /\ \/ pc'[t] = "uq_select" /\ frame'[t].pid = product_id
                               /\ frame'[t].qty = quantity_change
       \/ /\ result'[t].op = "update_stock"
          /\ result'[t].pid = product_id
          /\ result'[t].qty = quantity_change
    /\ UpdateStockBegin(t, product_id, quantity_change, TRUE)

\* C14: with no other call running and a storage that answers, update_stock
\* is refused without a write when the product is missing or its quantity
\* plus the delta is negative, and otherwise (for every delta: positive, zero
\* or negative) goes on to write quantity + delta and return True.
C14_AdjustmentAppliesDelta ==
    [][\A t \in Terminals :
          Solo(t) =>
             /\ \A product_id \in ProductIds, quantity_change \in -MaxStock..MaxStock :
                   UpdateStockStep(t, product_id, quantity_change)
                   => /\ UNCHANGED db
                      /\ IF Missing(product_id)
                            \/ products[product_id].quantity + quantity_change < 0
                         THEN result'[t] = Returned("update_stock", product_id,
                                                    quantity_change, FALSE, 0)
                         ELSE pc'[t] = "uq_select"
             /\ (pc[t] = "uq_select" /\ Stepped(t))
                   => UNCHANGED db /\ pc'[t] = "uq_update"
             /\ (pc[t] = "uq_update" /\ Stepped(t))
                   => /\ products' = [products EXCEPT ![frame[t].pid].quantity =
                                                        @ + frame[t].qty]
                      /\ result'[t] = Returned("update_stock", frame[t].pid,
                                                frame[t].qty, TRUE, 0)]_vars

\* C15: no two stored products share a barcode (other than no barcode),
\* whatever the interleaving of create_product and update_product calls, each
\* of which looks the barcode up in a read of its own before it writes.
C15_BarcodesAreUnique ==
    \A i, j \in DOMAIN products :
        (i # j /\ products[i].exists /\ products[j].exists /\ products[i].barcode # "")
        => products[i].barcode # products[j].barcode

\* t's lookup did not find barcode b2 and t is about to INSERT it, while the
\* other terminal's create_product has stored a product with b2
C15_Witness ==
    \E t \in Terminals :
        /\ pc[t] = "cp_insert"
        /\ frame[t].product.barcode = "b2"
        /\ Succeeded(Other(t), "create_product")
        /\ Len(products) = 3
        /\ products[3].barcode = "b2"

\* the name, price or quantity of the product fails the service's validation
Invalid(product) == product.name = "" \/ product.price < 0 \/ product.quantity < 0

\* the stored products, other than product_id, that carry the barcode
OwnersOf(barcode, product_id) ==
    {id \in DOMAIN products \ {product_id} :
        products[id].exists /\ products[id].barcode = barcode}

\* C16: with a storage that answers, create_product is refused and stores
\* nothing when the name is empty, the price or the quantity negative, or the
\* barcode is not empty and belongs to a stored product; otherwise it stores
\* exactly one new product under an id no product had and returns (True, id).
C16_CreateValidatesThenInserts ==
    [][\A t \in Terminals :
          /\ \A product \in CatalogProducts :
                (pc[t] = "idle" /\ product.id = 0 /\ CreateProductBegin(t, product, TRUE))
                => /\ UNCHANGED db
                   /\ IF Invalid(product)
                         \/ (product.barcode # "" /\ OwnersOf(product.barcode, 0) # {})
                      THEN result'[t] = Returned("create_product", 0, product.quantity,
                                                 FALSE, 0)
                      ELSE pc'[t] = "cp_insert" /\ frame'[t].product = product
          /\ (pc[t] = "cp_insert" /\ CreateProductWrite(t, TRUE))
                => LET product == frame[t].product
                   IN IF product.barcode # "" /\ OwnersOf(product.barcode, 0) # {}
                      THEN /\ products' = products
                           /\ result'[t] = Returned("create_product", 0, product.quantity,
                                                      FALSE, 0)
                      ELSE /\ result'[t].ok
                           /\ result'[t].id \notin DOMAIN products
                           /\ DOMAIN products' = DOMAIN products \cup {result'[t].id}
                           /\ \A id \in DOMAIN products : products'[id] = products[id]
                           /\ products'[result'[t].id] =
                                 ProductRow(product.barcode, product.name, product.price,
                                            product.quantity)]_vars

\* both terminals created a product: the ids returned are 3 and 4
C16_Witness ==
    \E t \in Terminals :
        /\ Succeeded(t, "create_product") /\ result[t].id = 3
        /\ Succeeded(Other(t), "create_product") /\ result[Other(t)].id = 4
        /\ products[3].barcode = "b2"
        /\ products[4].barcode = ""

\* C17: with a storage that answers, update_product is refused and changes no
\* product when the id is unknown, when the name, price or quantity fails the
\* validation, or when the barcode belongs to a product with another id;
\* otherwise (the barcode is free or the product's own) it returns True and
\* changes only the product with that id.
C17_UpdateValidatesThenWrites ==
    [][\A t \in Terminals :
          /\ \A product \in CatalogProducts :
                (pc[t] = "idle" /\ UpdateProductBegin(t, product, TRUE))
                => /\ UNCHANGED db
                   /\ IF \/ product.id = 0
                         \/ Invalid(product)
                         \/ (product.barcode # ""
                               /\ OwnersOf(product.barcode, product.id) # {})
                      THEN result'[t] = Returned("update_product", product.id,
                                                 product.quantity, FALSE, 0)
                      ELSE pc'[t] = "up_update" /\ frame'[t].product = product
          /\ (pc[t] = "up_update" /\ UpdateProductWrite(t, TRUE))
                => LET product == frame[t].product
                   IN IF \/ Missing(product.id)
                         \/ (product.barcode # ""
                               /\ OwnersOf(product.barcode, product.id) # {})
                      THEN /\ products' = products
                           /\ result'[t] = Returned("update_product", product.id,
                                                      product.quantity, FALSE, 0)
                      ELSE /\ result'[t] = Returned("update_product", product.id,
                                                      product.quantity, TRUE, 0)
                           /\ products' =
                                 [products EXCEPT ![product.id] =
                                     ProductRow(product.barcode, product.name,
                                                product.price, product.quantity)]]_vars

\* the stored sale lines that name the product
LinesNaming(product_id) ==
    {j \in DOMAIN sale_items : sale_items[j].product_id = product_id}

\* C18: delete_product on a product that a stored sale line names returns
\* False and leaves the product stored, and after every step (a delete between
\* a commit's validation and its writes included) every stored sale line
\* names a stored product.
C18_SoldProductsStay ==
    [][/\ \A j \in DOMAIN sale_items' :
             /\ sale_items'[j].product_id \in DOMAIN products'
             /\ products'[sale_items'[j].product_id].exists
       /\ \A t \in Terminals, product_id \in ProductIds :
             (/\ pc[t] = "idle"
              /\ LinesNaming(product_id) # {}
              /\ result'[t].op = "delete_product"
              /\ result'[t].pid = product_id
              /\ \E up \in BOOLEAN : DeleteProduct(t, product_id, up))
             => /\ ~result'[t].ok
                /\ products' = products]_vars

\* a delete of a sold product was refused and the product is still stored
C18_Witness ==
    \E t \in Terminals :
        /\ ReturnedFrom(t, "delete_product") /\ ~result[t].ok
        /\ LinesNaming(result[t].pid) # {}
        /\ products[result[t].pid].exists
        /\ Succeeded(Other(t), "create_sale")

----------------------------------------------------------------------------
(* Readers: sales_repo.get_by_id and product_repo.get_all on a connection  *)
(* of their own while another terminal commits a sale                      *)

\* a reader that sees the rows an open transaction of the other terminal
\* has written before its commit
Snapshot_ReadUncommitted(t) ==
    IF InTransaction(Other(t))
    THEN Committed(Tables, frame[Other(t)].sale_id,
                   [cart[Other(t)] EXCEPT !.items = WrittenLines(Other(t))])
    ELSE Tables

\* the rows a statement of t's connection reads: the pool's connections run
\* at the server's isolation level, which shows committed rows only
Snapshot(t) == Tables

\* get_by_id lines 15-28: SELECT * FROM sales WHERE id = %s
GetSaleSelect(t, sale_id, up) ==
    /\ pc[t] = "idle"
    /\ IF up /\ \E k \in DOMAIN Snapshot(t).sales : Snapshot(t).sales[k].id = sale_id
       THEN Goto(t, "gs_items", [IdleFrame EXCEPT !.sale_id = sale_id])
       ELSE Return(t, Returned("get_sale_by_id", sale_id, 0, FALSE, 0))
    /\ UNCHANGED <<db, session, cart>>

\* the sale lines of the join with products: lines whose product is stored
RECURSIVE Joined(_, _)
Joined(lines, rows) ==
    IF lines = <<>> THEN <<>>
    ELSE IF Head(lines).product_id \in DOMAIN rows /\ rows[Head(lines).product_id].exists
    THEN <<Head(lines)>> \o Joined(Tail(lines), rows)
    ELSE Joined(Tail(lines), rows)

\* get_by_id lines 39-70: SELECT the sale's items joined with products; the
\* result carries the sale id and the number of lines of the Sale returned
GetSaleItems(t, up) ==
    /\ pc[t] = "gs_items"
    /\ IF up
       THEN Return(t, Returned("get_sale_by_id", frame[t].sale_id,
                               Len(Joined(ItemsOf(frame[t].sale_id, Snapshot(t).sale_items),
                                          Snapshot(t).products)),
                               TRUE, frame[t].sale_id))
       ELSE Return(t, Returned("get_sale_by_id", frame[t].sale_id, 0, FALSE, 0))
    /\ UNCHANGED <<db, session, cart>>

\* product_repo.get_all lines 76-105: SELECT * FROM products; the result
\* carries, as pid and qty, the quantities read for products 1 and 2
GetAllProducts(t, up) ==
    /\ pc[t] = "idle"
    /\ IF ~check_permission(t, INVENTORY_VIEW)
       THEN Return(t, Raised("get_all_products", 0, 0))
       ELSE IF up
       THEN Return(t, Returned("get_all_products", Snapshot(t).products[1].quantity,
                               Snapshot(t).products[2].quantity, TRUE, 0))
       ELSE Return(t, Returned("get_all_products", 0, 0, FALSE, 0))
    /\ UNCHANGED <<db, session, cart>>

\* Terminal 1 commits one cart while terminal 2 reads, again and again.
InitRead ==
    /\ InitDb
    /\ InitTerminals
    /\ \E items \in CartItems \ {<<>>} :
          cart = [t \in Terminals |->
                    IF t = 1 THEN [NewSaleObject(0) EXCEPT !.items = items]
                    ELSE NewSaleObject(UserOf(t).id)]

NextRead ==
    \/ FirstCall(1) /\ CreateSaleBegin(1)
    \/ \E up \in BOOLEAN : CreateSaleValidate(1, up)
    \/ \E up \in BOOLEAN : InsertSale(1, up)
    \/ \E up \in BOOLEAN : InsertItem(1, up)
    \/ \E up \in BOOLEAN : CommitSale(1, up)
    \/ \E up \in BOOLEAN : GetSaleSelect(2, 1, up)
    \/ \E up \in BOOLEAN : GetSaleItems(2, up)
    \/ \E up \in BOOLEAN : GetAllProducts(2, up)

SpecRead == InitRead /\ [][NextRead]_vars

\* the quantities of products 1 and 2 once every line of the cart is sold
QuantitiesAfter(items) ==
    LET rows == Decremented([id \in ProductIds |-> ProductRow("", "tea", 10, InitialQuantity)],
                            items)
    IN <<rows[1].quantity, rows[2].quantity>>

\* C19: a reader running beside a sale commit never sees the commit half
\* done: a sale it reads comes with every line of the cart, and the product
\* quantities it reads in one SELECT are those before the sale or those
\* after all of the sale's decrements.
C19_ReadersSeeWholeCommits ==
    /\ Succeeded(2, "get_sale_by_id")
          => /\ result[2].qty = Len(cart[1].items)
             /\ Succeeded(1, "create_sale")
    /\ Succeeded(2, "get_all_products")
          => <<result[2].pid, result[2].qty>>
                \in {QuantitiesAfter(<<>>), QuantitiesAfter(cart[1].items)}

\* the reader's SELECT of the products returned the quantities from before
\* the sale while the transaction holds the sale row and both of its lines
C19_Witness ==
    /\ pc[1] = "cs_commit"
    /\ Len(cart[1].items) = 2
    /\ Succeeded(2, "get_all_products")
    /\ <<result[2].pid, result[2].qty>> = QuantitiesAfter(<<>>)

\* C20: a create_sale that failed for an infrastructure reason returns a
\* value other than the one a create_sale refused by validation returns.
\* Terminal u's empty cart is refused by validation; terminal t's call drew a
\* sale id and no sale is stored, so it failed inside create_sale_with_items
\* on a statement the storage did not carry out.
C20_FailureKindsDiffer ==
    \A t \in Terminals :
        LET u == Other(t)
        IN (/\ ReturnedFrom(u, "create_sale") /\ ~result[u].ok
            /\ cart[u].items = <<>>
            /\ ReturnedFrom(t, "create_sale") /\ ~result[t].ok
            /\ cart[t].items # <<>>
            /\ next_sale_id > 1
            /\ sales = <<>>)
           => result[t] # result[u]

----------------------------------------------------------------------------
(* Sessions: one terminal whose operator logs in and out between calls     *)

MaxProducts == 3
MaxSales == 1

\* the users that can log in; "guest" is a role ROLE_PERMISSIONS does not list
Users == [id : {1}, role : {"cashier", "manager", "admin", "guest"}]

\* core/auth.py login, called by the main window after the login screen
Login(t, user) ==
    /\ pc[t] = "idle"
    /\ session' = [session EXCEPT ![t] = login(user)]
    /\ UNCHANGED <<db, cart, pc, frame, result>>

\* core/auth.py logout lines 87-93
Logout(t) ==
    /\ pc[t] = "idle"
    /\ session[t].active
    /\ session' = [session EXCEPT ![t] = NoSession]
    /\ UNCHANGED <<db, cart, pc, frame, result>>

\* the products the dialogs of this terminal hand to the service
AuthProducts ==
    {[found |-> TRUE, id |-> id, barcode |-> "", name |-> "tea", price |-> 10,
      quantity |-> 1] : id \in {0, 1}}

InitAuth ==
    /\ InitDb
    /\ session = [t \in Terminals |-> NoSession]
    /\ pc = [t \in Terminals |-> "idle"]
    /\ frame = [t \in Terminals |-> IdleFrame]
    /\ result = [t \in Terminals |-> NoResult]
    /\ cart = [t \in Terminals |-> NewSaleObject(0)]

NextAuth ==
    \/ \E user \in Users : Login(1, user)
    \/ Logout(1)
    \/ AddProductToSale(1, 1, 1, TRUE)
    \/ RemoveProductFromSale(1, 1, TRUE, 1)
    \/ next_sale_id <= MaxSales /\ CreateSaleBegin(1)
    \/ CreateSaleValidate(1, TRUE)
    \/ InsertSale(1, TRUE)
    \/ InsertItem(1, TRUE)
    \/ CommitSale(1, TRUE)
    \/ \E quantity_change \in {-1, 1} : UpdateStockBegin(1, 1, quantity_change, TRUE)
    \/ UpdateQuantitySelect(1, TRUE)
    \/ UpdateQuantityWrite(1, TRUE)
    \/ \E product \in AuthProducts :
          product.id = 0 /\ Len(products) < MaxProducts
                         /\ CreateProductBegin(1, product, TRUE)
    \/ CreateProductWrite(1, TRUE)
    \/ \E product \in AuthProducts : product.id # 0 /\ UpdateProductBegin(1, product, TRUE)
    \/ UpdateProductWrite(1, TRUE)
    \/ DeleteProduct(1, 2, TRUE)

SpecAuth == InitAuth /\ [][NextAuth]_vars

\* t's session does not hold the permission
Lacks(t, permission) == ~session[t].active \/ permission \notin session[t].permissions

\* the operation t calls in this step: the one whose first statement t goes
\* on to, or the one whose result t holds after the step
CalledOp(t) ==
    CASE pc'[t] \in {"cs_validate", "cs_insert"} -> "create_sale"
      [] pc'[t] = "uq_select" -> "update_stock"
      [] pc'[t] = "up_update" -> "update_product"
      [] pc'[t] = "cp_insert" -> "create_product"
      [] OTHER -> result'[t].op

\* the permission the decorator of the operation asks for
PermissionOf(op) ==
    IF op \in {"create_sale", "add_product_to_sale", "remove_product_from_sale"}
    THEN SALES_CREATE
    ELSE INVENTORY_EDIT

\* the step is a call by t of a guarded operation
GuardedCall(t) ==
    /\ pc[t] = "idle"
    /\ session'[t] = session[t]
    /\ Stepped(t) \/ cart'[t] # cart[t]
    /\ CalledOp(t) \in {"create_sale", "add_product_to_sale", "remove_product_from_sale",
                         "create_product", "update_product", "update_stock",
                         "delete_product"}

\* the call raised PermissionError and changed neither a cart nor the store
Denied(t) ==
    /\ result'[t].status = "raised"
    /\ pc'[t] = "idle"
    /\ UNCHANGED <<cart, db>>

\* C21: a call of create_sale, add_product_to_sale or remove_product_from_sale
\* without sales_create, or of create_product, update_product, update_stock
\* or delete_product without inventory_edit (no session included), raises
\* PermissionError and leaves the carts and the stored rows as they were; under
\* a cashier's session the products change only at the commit of a sale.
C21_NoEffectWithoutPermission ==
    [][\A t \in Terminals :
          /\ (GuardedCall(t) /\ Lacks(t, PermissionOf(CalledOp(t)))) => Denied(t)
          /\ (session[t].active /\ session[t].role = "cashier" /\ products' # products)
                => pc[t] = "cs_commit"]_vars

\* a cashier's update_stock raised after a sale had lowered the stock
C21_Witness ==
    /\ session[1].active /\ session[1].role = "cashier"
    /\ result[1].op = "update_stock" /\ result[1].status = "raised"
    /\ Len(sales) = 1
    /\ products[1].quantity = InitialQuantity - 1

\* C30: login(user) leaves the session with exactly the permissions of the
\* user's role in ROLE_PERMISSIONS (none for a role it does not list),
\* whatever the session was before; logout leaves no session; and with no
\* session every guarded call raises PermissionError without effect.
C30_PermissionsFollowLastLogin ==
    [][\A t \in Terminals :
          /\ session'[t] # session[t]
                => /\ \A user \in Users :
                         Login(t, user)
                         => /\ session'[t].active
                            /\ session'[t].user_id = user.id
                            /\ session'[t].permissions = ROLE_PERMISSIONS(user.role)
                            /\ user.role = "guest" => session'[t].permissions = {}
                   /\ Logout(t) => ~session'[t].active /\ session'[t].permissions = {}
          /\ (~session[t].active /\ GuardedCall(t)) => Denied(t)]_vars

\* after a sale was committed the operator logged out, and the next call of
\* add_product_to_sale raised
C30_Witness ==
    /\ ~session[1].active
    /\ Len(sales) = 1
    /\ result[1].op = "add_product_to_sale" /\ result[1].status = "raised"

----------------------------------------------------------------------------
(* Stock accounting *)

\* the sum of the deltas of the update_stock calls on product_id that
\* returned True
RECURSIVE AdjustedBy(_, _)
AdjustedBy(ts, product_id) ==
    IF ts = {} THEN 0
    ELSE LET t == CHOOSE u \in ts : TRUE
             d == IF Succeeded(t, "update_stock") /\ result[t].pid = product_id
                  THEN result[t].qty ELSE 0
         IN d + AdjustedBy(ts \ {t}, product_id)

\* the sum of the quantities of the stored line items for product_id
RECURSIVE SoldQuantity(_, _)
SoldQuantity(rows, product_id) ==
    IF rows = <<>> THEN 0
    ELSE (IF Head(rows).product_id = product_id THEN Head(rows).quantity ELSE 0)
         + SoldQuantity(Tail(rows), product_id)

\* no call is running and no call edited or deleted a product
OnlyStockAndSales ==
    \A t \in Terminals :
        /\ pc[t] = "idle"
        /\ result[t].op \in {"", "update_stock", "create_sale"}

\* C22: when the calls made were stock adjustments and sale commits only and
\* all have returned, every product's quantity is its initial quantity plus
\* the deltas of the adjustments that returned True minus its quantities in
\* the stored line items.
C22_NoStockChangeIsLost ==
    OnlyStockAndSales
    => \A id \in ProductIds :
          products[id].quantity
             = InitialQuantity + AdjustedBy(Terminals, id) - SoldQuantity(sale_items, id)

----------------------------------------------------------------------------
(* The operator of a sale *)

\* the stored sale rows with this id
SalesWithId(id) == {i \in DOMAIN sales : sales[i].id = id}

\* C26: the sale a successful create_sale stored carries the user id of the
\* session of the terminal that committed it, not the user_id its Sale object
\* was built with.
C26_SaleBelongsToSessionUser ==
    \A t \in Terminals :
        Succeeded(t, "create_sale")
        => /\ SalesWithId(result[t].id) # {}
           /\ \A i \in SalesWithId(result[t].id) : sales[i].user_id = session[t].user_id

\* terminal 2 committed a cart that was built with user_id 0, and the stored
\* sale names user 2
C26_Witness ==
    /\ Succeeded(2, "create_sale")
    /\ \E i \in DOMAIN sales : sales[i].id = result[2].id /\ sales[i].user_id = 2
    /\ session[2].user_id = 2

----------------------------------------------------------------------------
(* The cart and the stores *)

\* t's step is a call of add_product_to_sale or remove_product_from_sale
CartCall(t) ==
    /\ pc[t] = "idle"
    /\ pc'[t] = "idle"
    /\ result'[t].op \in {"add_product_to_sale", "remove_product_from_sale"}
    /\ \/ \E up \in BOOLEAN :
             AddProductToSale(t, result'[t].pid, result'[t].qty, up)
       \/ \E omitted \in BOOLEAN :
             RemoveProductFromSale(t, result'[t].pid, omitted, result'[t].qty)

\* C27: a call of add_product_to_sale or remove_product_from_sale, whether it
\* returns True or False, leaves the products, the sales and the sale items
\* as they were and changes no cart other than the caller's.
C27_CartCallsTouchOnlyTheirCart ==
    [][\A t \in Terminals :
          CartCall(t)
          => /\ UNCHANGED db
             /\ \A u \in Terminals \ {t} : cart'[u] = cart[u]]_vars

\* terminal 1 holds a line for product 2, its add of product 1 was refused
\* after the stock of product 1 had been lowered, and terminal 2's cart is
\* still empty
C27_Witness ==
    /\ ReturnedFrom(1, "add_product_to_sale") /\ ~result[1].ok
    /\ result[1].pid = 1
    /\ products[1].exists /\ products[1].quantity = InitialQuantity - 1
    /\ OneLineFor(cart[1], 2)
    /\ cart[2].items = <<>>
    /\ sales = <<>> /\ sale_items = <<>>

\* C29: an update_product that succeeded with the quantity field as the
\* dialog read it (the initial quantity) leaves the product, once the other
\* terminal's sale commit or stock adjustment has also returned, with the
\* initial quantity changed by that adjustment and that sale.
C29_EditKeepsStockChanges ==
    \A t \in Terminals, id \in ProductIds :
        (/\ pc[t] = "idle" /\ pc[Other(t)] = "idle"
         /\ Succeeded(t, "update_product")
         /\ result[t].pid = id
         /\ result[t].qty = InitialQuantity
         /\ result[Other(t)].op \in {"create_sale", "update_stock"})
        => products[id].quantity
              = InitialQuantity + AdjustedBy({Other(t)}, id) - SoldQuantity(sale_items, id)

----------------------------------------------------------------------------
(* The till: ui/screens/sales.py complete_sale over a cart built call by    *)
(* call, with product 1 repriced or renamed between the calls               *)

TillPrices == {10, 20}
TillNames == {"tea", "chai"}
TillProducts == {1}

\* complete_sale has its create_sale back with success and has not yet
\* replaced the cart
AwaitingReset(t) ==
    pc[t] = "idle" /\ Succeeded(t, "create_sale") /\ cart[t].items # <<>>

\* the operator is free to start a call
AtTill(t) == pc[t] = "idle" /\ ~AwaitingReset(t)

\* complete_sale replacing the cart whatever create_sale returned
CompleteSaleReset_Always(t) ==
    /\ pc[t] = "idle"
    /\ ReturnedFrom(t, "create_sale")
    /\ cart[t].items # <<>>
    /\ cart' = [cart EXCEPT ![t] = NewSaleObject(session[t].user_id)]
    /\ UNCHANGED <<db, session, pc, frame, result>>

\* complete_sale lines 367-376: after success, self.current_sale = Sale(...)
CompleteSaleReset(t) ==
    /\ AwaitingReset(t)
    /\ cart' = [cart EXCEPT ![t] = NewSaleObject(session[t].user_id)]
    /\ UNCHANGED <<db, session, pc, frame, result>>

\* the edit dialog's Product for product_id with a new name and price
Edited(product_id, name, price) ==
    [AsProduct(product_id) EXCEPT !.name = name, !.price = price]

InitTill ==
    /\ InitDb
    /\ InitTerminals
    /\ cart = [t \in Terminals |-> NewSaleObject(UserOf(t).id)]

NextTill ==
    \/ \E product_id \in TillProducts, quantity \in {-1, 0, 1} :
          /\ AtTill(1)
          /\ LineQuantity(add_product_to_sale(cart[1], get_by_id(product_id, TRUE),
                                              product_id, quantity).sale,
                          product_id) >= -1
          /\ AddProductToSale(1, product_id, quantity, TRUE)
    \/ \E product_id \in TillProducts, omitted \in BOOLEAN, quantity \in {-1, 1} :
          /\ AtTill(1)
          /\ LineQuantity(remove_product_from_sale(cart[1], product_id, omitted,
                                                   quantity).sale,
                          product_id) <= MaxLineQty
          /\ RemoveProductFromSale(1, product_id, omitted, quantity)
    \/ \E name \in TillNames, price \in TillPrices :
          AtTill(1) /\ UpdateProductBegin(1, Edited(1, name, price), TRUE)
    \/ UpdateProductWrite(1, TRUE)
    \/ AtTill(1) /\ next_sale_id <= MaxSales /\ CreateSaleBegin(1)
    \/ \E up \in BOOLEAN : CreateSaleValidate(1, up)
    \/ \E up \in BOOLEAN : InsertSale(1, up)
    \/ \E up \in BOOLEAN : InsertItem(1, up)
    \/ \E up \in BOOLEAN : CommitSale(1, up)
    \/ CompleteSaleReset(1)

SpecTill == InitTill /\ [][NextTill]_vars

\* C23: every stored line item has a quantity of at least 1, whatever
\* quantities add_product_to_sale and remove_product_from_sale were called
\* with, and the step that stores a sale's lines raises no product's quantity.
C23_StoredLinesArePositive ==
    [][/\ \A k \in DOMAIN sale_items' : sale_items'[k].quantity >= 1
       /\ sale_items' # sale_items
             => \A id \in ProductIds : products'[id].quantity <= products[id].quantity]_vars

\* C24: a line that enters a cart carries the product's stored price of that
\* moment; no step (an edit of the price, a further add merged into the line,
\* a remove, a commit) changes the unit price of a line that stays in the
\* cart; and the line items a commit stores carry the unit prices of the
\* cart's lines.
C24_UnitPriceIsAddTimeSnapshot ==
    [][\A t \in Terminals :
          /\ \A product_id \in ProductIds :
                LET i == LineOf(cart[t], product_id)
                    j == LineOf(cart'[t], product_id)
                IN /\ (i # 0 /\ j # 0)
                         => cart'[t].items[j].unit_price = cart[t].items[i].unit_price
                   /\ (i = 0 /\ j # 0)
                         => cart'[t].items[j].unit_price = products[product_id].price
          /\ (pc[t] = "cs_commit" /\ sale_items' # sale_items)
                => /\ Len(sale_items') = Len(sale_items) + Len(cart[t].items)
                   /\ \A k \in DOMAIN cart[t].items :
                         LET row == sale_items'[Len(sale_items) + k]
                         IN /\ row.product_id = cart[t].items[k].product_id
                            /\ row.unit_price = cart[t].items[k].unit_price]_vars

\* a line of two units that entered the cart at price 10 was stored at 10 by
\* a commit that ran after the product had been repriced to 20
C24_Witness ==
    /\ AwaitingReset(1)
    /\ OneLineFor(cart[1], 1)
    /\ cart[1].items[1].quantity = 2
    /\ cart[1].items[1].unit_price = 10
    /\ products[1].price = 20
    /\ Len(sale_items) = 1
    /\ sale_items[1].unit_price = 10
    /\ result[1].id = sale_items[1].sale_id

\* get_by_id lines 40-61: the product_name of each line of the sale read
\* back, p.name of the products row the line joins
RECURSIVE ShownNames(_, _)
ShownNames(lines, rows) ==
    IF lines = <<>> THEN <<>>
    ELSE <<rows[Head(lines).product_id].name>> \o ShownNames(Tail(lines), rows)

\* the names get_by_id returns for the lines of sale_id
get_sale_by_id_names(sale_id, lines, rows) ==
    ShownNames(Joined(ItemsOf(sale_id, lines), rows), rows)

\* the positions of a running create_sale
CreateSalePcs == {"cs_validate", "cs_insert", "cs_items", "cs_commit"}

\* C25: no step of create_sale changes the product_name of a cart line, and
\* the names get_by_id returns for the lines of a stored sale stay the same
\* whatever happens to the products afterwards.
C25_NameIsAddTimeSnapshot ==
    [][/\ \A t \in Terminals :
             (pc[t] \in CreateSalePcs \/ pc'[t] \in CreateSalePcs)
             => /\ Len(cart'[t].items) = Len(cart[t].items)
                /\ \A i \in DOMAIN cart[t].items :
                      cart'[t].items[i].product_name = cart[t].items[i].product_name
       /\ \A k \in DOMAIN sales :
             get_sale_by_id_names(sales[k].id, sale_items', products')
                = get_sale_by_id_names(sales[k].id, sale_items, products)]_vars

\* t's step belongs to a call of create_sale
CreateSaleStep(t) ==
    \/ pc[t] \in CreateSalePcs
    \/ pc'[t] \in CreateSalePcs
    \/ /\ pc[t] = "idle" /\ pc'[t] = "idle"
       /\ result'[t] # result[t]
       /\ result'[t].op = "create_sale"

\* the cart of t changes right after create_sale returned, with no other call
\* made in between
ReplacedAfterCreateSale(t) ==
    /\ pc[t] = "idle" /\ pc'[t] = "idle"
    /\ result[t].op = "create_sale"
    /\ result'[t] = result[t]
    /\ cart'[t] # cart[t]

\* C28: no step of create_sale, failing or not, changes the product id, the
\* quantity or the unit price of a line of the cart or the number of lines;
\* and complete_sale changes the cart after create_sale only when it
\* returned success, to a fresh empty Sale of the session's user.
C28_CommitLeavesCartToCaller ==
    [][\A t \in Terminals :
          /\ CreateSaleStep(t)
                => /\ Len(cart'[t].items) = Len(cart[t].items)
                   /\ \A i \in DOMAIN cart[t].items :
                         /\ cart'[t].items[i].product_id = cart[t].items[i].product_id
                         /\ cart'[t].items[i].quantity = cart[t].items[i].quantity
                         /\ cart'[t].items[i].unit_price = cart[t].items[i].unit_price
          /\ ReplacedAfterCreateSale(t)
                => /\ result[t].ok
                   /\ cart'[t] = NewSaleObject(session[t].user_id)]_vars

\* a create_sale failed inside create_sale_with_items (a sale id was drawn,
\* no sale is stored) and the cart still holds its line and the total
\* create_sale computed
C28_Witness ==
    /\ ReturnedFrom(1, "create_sale") /\ ~result[1].ok
    /\ next_sale_id = 2
    /\ sales = <<>> /\ sale_items = <<>>
    /\ OneLineFor(cart[1], 1)
    /\ cart[1].items[1].quantity = 2
    /\ cart[1].total_amount = 2 * cart[1].items[1].unit_price
    /\ products[1].quantity = InitialQuantity

====
